---------------------------- MODULE Spec2Model ----------------------------
(***************************************************************************)
(* ray_quickstart.py: a driver script that submits remote tasks, chains    *)
(* them through futures, and talks to two actors (Counter, MessageActor).  *)
(* The script is the "main" process.  The runtime it calls (.remote(),     *)
(* ray.get) is modelled by what the script says of it: a task runs on a    *)
(* worker once the futures among its arguments are available (lines 69,    *)
(* 85-87), an actor executes its methods serially (lines 147-151).         *)
(***************************************************************************)
EXTENDS Integers, Sequences, FiniteSets, TLC

VARIABLES
    pool,     \* number of workers ray.init() started (line 24)
    pc,       \* the statement of the script main is at ("L<line>")
    env,      \* the script's global names
    nsub,     \* how many futures main has created so far
    obj,      \* object store: future id -> task / method invocation record
    actors,   \* actor name -> the actor object's fields
    queue,    \* actor name -> invocations enqueued and not yet started
    stdout,   \* what the script printed, in order
    log,      \* history: actor name -> every invocation, in arrival order
    rounds    \* history: ray.get statement -> seconds slept through there

vars == <<pool, pc, env, nsub, obj, actors, queue, stdout, log, rounds>>

---------------------------------------------------------------------------
(* Bounds of the model *)

\* ray.init() starts one worker per CPU; the model tries 1..MaxPool CPUs.
MaxPool == 4
\* range(100) of worker's loop (line 221), cut down.
NumMessages == 1
\* range(100) of main's read loop (line 233), cut down.
NumDrains == 2
\* How many task bodies may raise in one run.
MaxFailures == 1
\* range(100) of worker's loop (line 221), cut down less, for the order of
\* one worker's messages.
NumTurns == 2
\* The pool sizes tried together with NumTurns: 1..PoolTurns.
PoolTurns == 2

(* Program constants *)

\* range(4), line 34
NumTasks == 4
\* range(3), line 230
NumWorkers == 3

None == "None"

NoRef == <<>>

---------------------------------------------------------------------------
(* The remote functions and actor classes *)

\* lines 27-30
f(x) == x

\* lines 59-61: np.random.normal(size=size), kept symbolic: the sample
\* drawn by task id.
create_matrix(size, id) == [op |-> "normal", size |-> size, seed |-> id]

\* lines 63-65: np.dot(x, y), kept symbolic: the product of x and y.
multiply_matrices(x, y) == [op |-> "dot", x |-> x, y |-> y]

\* lines 95-101
add(x, y) == x + y

\* The functions whose body starts with time.sleep(1).
Sleeps(fn) == fn \in {"f", "add"}

\* "Message {} from worker {}.".format(i, j)
Message(i, j) == <<"Message", i, "from worker", j>>

\* __init__ of the two actor classes: the fields of a new actor.
Construct(class) ==
    IF class = "Counter" THEN [x |-> 0] ELSE [messages |-> <<>>]

\* The methods: fields (and argument) -> <<fields after, returned value>>.
inc(self) == <<[self EXCEPT !.x = @ + 1], None>>

get_value(self) == <<self, self.x>>

\* An add that puts the message in front: self.messages.insert(0, message)
add_message_front(self, message) ==
    <<[self EXCEPT !.messages = <<message>> \o @], None>>

add_message(self, message) ==
    <<[self EXCEPT !.messages = Append(@, message)], None>>

\* A read that resets the list it is about to return:
\* messages = self.messages; messages.clear(); return messages
get_and_drop_message(self) == <<[self EXCEPT !.messages = <<>>], <<>>>>

\* A read that forgets to reset the list.
get_and_keep_message(self) == <<self, self.messages>>

get_and_clear_message(self) ==
    <<[self EXCEPT !.messages = <<>>], self.messages>>

---------------------------------------------------------------------------
(* Futures and the object store *)

\* An argument slot of a task, <<kind, content>>: a literal or a future.
Lit(v) == <<"lit", v>>

Ref(id) == <<"ref", id>>

\* A record of the object store, as created by fn.remote(args).
NewTask(fn, args) ==
    [fn |-> fn, args |-> args, actor |-> "none", st |-> "Pending",
     val |-> None, i |-> 0]

\* A record of the object store, as created by handle.method.remote(args).
NewCall(a, method, args) ==
    [fn |-> method, args |-> args, actor |-> a, st |-> "Pending",
     val |-> None, i |-> 0]

Resolved(id) == obj[id].st = "Resolved"

Failed(id) == obj[id].st = "Failed"

Settled(id) == Resolved(id) \/ Failed(id)

\* The futures among a task's arguments.
FutureArgs(id) ==
    {obj[id].args[k][2] :
        k \in {n \in 1..Len(obj[id].args) : obj[id].args[n][1] = "ref"}}

\* A dependency check that only looks whether the futures exist.
DepsSubmitted(id) == \A d \in FutureArgs(id) : d \in DOMAIN obj

\* Line 69: "will not execute until the first 2 tasks are completed";
\* line 87: "The second task will not execute until the first task has
\* finished".
DepsResolved(id) == \A d \in FutureArgs(id) : Resolved(d)

\* Line 87: "the output of the first task will automatically be shipped to
\* the machine on which the second task is executing".
ArgValue(a) == IF a[1] = "ref" THEN obj[a[2]].val ELSE a[2]

IsPlain(id) == obj[id].actor = "none"

IsRunning(id) == IsPlain(id) /\ obj[id].st = "Running"

\* A task that is handed out again after it returned.
IsReadyAgain(id) ==
    IsPlain(id) /\ obj[id].st \in {"Pending", "Resolved"} /\ DepsResolved(id)

\* A ready set that admits a task only after every task main submitted
\* before it has returned.
IsReadyInTurn(id) ==
    /\ IsPlain(id) /\ obj[id].st = "Pending" /\ DepsResolved(id)
    /\ \A e \in DOMAIN obj :
          (IsPlain(e) /\ e[1] = id[1] /\ e[2] < id[2]) => Resolved(e)

\* A plain task that could be handed to a worker now.
IsReady(id) == IsPlain(id) /\ obj[id].st = "Pending" /\ DepsResolved(id)

Running == {id \in DOMAIN obj : IsRunning(id)}

Ready == {id \in DOMAIN obj : IsReady(id)}

\* A pool that runs one task at a time.
FreeWorkerSingle == Running = {}

\* A check for a free worker that is off by one.
FreeWorkerOffByOne == Cardinality(Running) <= pool

\* Some worker of the pool has no task.
FreeWorker == Cardinality(Running) < pool

\* The runtime lives as long as the driver script has not ended.
Alive == pc # "done"

---------------------------------------------------------------------------
(* The runtime: workers *)

\* A scheduler that rejects a ready task when it finds every worker busy.
DispatchOrReject(id) ==
    /\ Alive
    /\ IsReady(id)
    /\ obj' = IF FreeWorker
              THEN [obj EXCEPT ![id].st = "Running"]
              ELSE [obj EXCEPT ![id].st = "Failed",
                               ![id].val = "ResourceExhaustion"]
    /\ UNCHANGED <<pool, pc, env, nsub, actors, queue, stdout, log, rounds>>

\* A free worker takes a ready task.
Dispatch(id) ==
    /\ Alive
    /\ IsReady(id)
    /\ FreeWorker
    /\ obj' = [obj EXCEPT ![id].st = "Running"]
    /\ UNCHANGED <<pool, pc, env, nsub, actors, queue, stdout, log, rounds>>

\* A call that passes the first argument's value in every position.
ApplyFirstArg(id) ==
    LET fn == obj[id].fn
        a == obj[id].args
    IN  CASE fn = "f" -> f(ArgValue(a[1]))
          [] fn = "create_matrix" -> create_matrix(ArgValue(a[1]), id)
          [] fn = "multiply_matrices" ->
                multiply_matrices(ArgValue(a[1]), ArgValue(a[1]))
          [] fn = "add" -> add(ArgValue(a[1]), ArgValue(a[1]))
          [] OTHER -> None

\* What a task's body returns, given its arguments' values.
Apply(id) ==
    LET fn == obj[id].fn
        a == obj[id].args
    IN  CASE fn = "f" -> f(ArgValue(a[1]))
          [] fn = "create_matrix" -> create_matrix(ArgValue(a[1]), id)
          [] fn = "multiply_matrices" ->
                multiply_matrices(ArgValue(a[1]), ArgValue(a[2]))
          [] fn = "add" -> add(ArgValue(a[1]), ArgValue(a[2]))
          [] OTHER -> None

\* A task's body returns (worker: once its loop has run out).
Complete(id) ==
    /\ Alive
    /\ IsRunning(id)
    /\ obj[id].fn = "worker" => obj[id].i >= NumMessages
    /\ obj' = [obj EXCEPT ![id].st = "Resolved", ![id].val = Apply(id)]
    /\ UNCHANGED <<pool, pc, env, nsub, actors, queue, stdout, log, rounds>>

\* Lines 221-224, one turn of worker's loop: sleep, then
\* message_actor.add_message.remote("Message i from worker j.")
WorkerSend(id) ==
    /\ Alive
    /\ obj[id].fn = "worker"
    /\ IsRunning(id)
    /\ obj[id].i < NumMessages
    /\ LET a == ArgValue(obj[id].args[1])
           j == ArgValue(obj[id].args[2])
           call == <<j + 1, obj[id].i + 1>>
       IN  /\ obj' = [obj EXCEPT ![id].i = @ + 1] @@
                        (call :> NewCall(a, "add_message",
                                         <<Lit(Message(obj[id].i, j))>>))
           /\ queue' = [queue EXCEPT ![a] = Append(@, call)]
           /\ log' = [log EXCEPT ![a] = Append(@, call)]
    /\ UNCHANGED <<pool, pc, env, nsub, actors, stdout, rounds>>

---------------------------------------------------------------------------
(* The runtime: actors *)

\* The invocations of actor a that are executing.
Executing(a) ==
    {id \in DOMAIN obj : obj[id].actor = a /\ obj[id].st = "Running"}

\* An actor that takes a new invocation whatever it is doing.
ActorIdleAlways(a) == TRUE

\* An actor that runs its methods on a worker of the pool.
ActorNeedsWorker(a) == Executing(a) = {} /\ FreeWorker

\* Lines 150-151: "Individual actors execute methods serially".
ActorIdle(a) == Executing(a) = {}

\* An actor that takes the invocation that arrived last.
NextCallNewest(a) == queue[a][Len(queue[a])]

\* The invocation an actor takes next: the one that arrived first.
NextCall(a) == Head(queue[a])

\* An actor that starts the next invocation and leaves it in its queue.
ActorStartKeep(a) ==
    /\ Alive
    /\ queue[a] # <<>>
    /\ ActorIdle(a)
    /\ obj' = [obj EXCEPT ![NextCall(a)].st = "Running"]
    /\ UNCHANGED <<pool, pc, env, nsub, actors, queue, stdout, log, rounds>>

\* The actor takes the next invocation off its queue.
ActorStart(a) ==
    /\ Alive
    /\ queue[a] # <<>>
    /\ ActorIdle(a)
    /\ obj' = [obj EXCEPT ![NextCall(a)].st = "Running"]
    /\ queue' = [queue EXCEPT ![a] = SelectSeq(@, LAMBDA c : c # NextCall(a))]
    /\ UNCHANGED <<pool, pc, env, nsub, actors, stdout, log, rounds>>

\* What a method does to the actor's fields, and what it returns.
Method(self, id) ==
    LET fn == obj[id].fn
    IN  CASE fn = "inc" -> inc(self)
          [] fn = "get_value" -> get_value(self)
          [] fn = "add_message" -> add_message(self, ArgValue(obj[id].args[1]))
          [] fn = "get_and_clear_message" -> get_and_clear_message(self)

\* The method's body runs on the actor and returns.
ActorFinish(id) ==
    /\ Alive
    /\ ~IsPlain(id)
    /\ obj[id].st = "Running"
    /\ LET a == obj[id].actor
           r == Method(actors[a], id)
       IN  /\ actors' = [actors EXCEPT ![a] = r[1]]
           /\ obj' = [obj EXCEPT ![id].st = "Resolved", ![id].val = r[2]]
    /\ UNCHANGED <<pool, pc, env, nsub, queue, stdout, log, rounds>>

---------------------------------------------------------------------------
(* The script *)

\* The future the next .remote() of main returns.
MainRef == <<0, nsub + 1>>

\* fn.remote(args) called by main.
Remote(fn, args) ==
    /\ obj' = obj @@ (MainRef :> NewTask(fn, args))
    /\ nsub' = nsub + 1

\* handle.method.remote(args) called by main.
Invoke(a, method, args) ==
    /\ obj' = obj @@ (MainRef :> NewCall(a, method, args))
    /\ queue' = [queue EXCEPT ![a] = Append(@, MainRef)]
    /\ log' = [log EXCEPT ![a] = Append(@, MainRef)]
    /\ nsub' = nsub + 1

\* Class.remote(): a new actor with an empty queue.
Instantiate(class) ==
    /\ actors' = actors @@ (class :> Construct(class))
    /\ queue' = queue @@ (class :> <<>>)
    /\ log' = log @@ (class :> <<>>)

\* A list of values that comes back last first.
ray_get_reversed(refs) ==
    [k \in 1..Len(refs) |-> obj[refs[Len(refs) + 1 - k]].val]

\* ray.get of a list: the values in the order of the list.
ray_get(refs) == [k \in 1..Len(refs) |-> obj[refs[k]].val]

AllResolved(refs) == \A k \in 1..Len(refs) : Resolved(refs[k])

\* I. lines 33-35: result_ids.append(f.remote(i)) for i in range(4)
L35 ==
    /\ pc = "L35"
    /\ Remote("f", <<Lit(env.i)>>)
    /\ env' = [env EXCEPT !.result_ids = Append(@, MainRef), !.i = @ + 1]
    /\ pc' = IF env.i + 1 < NumTasks THEN "L35" ELSE "L38"
    /\ UNCHANGED <<pool, actors, queue, stdout, log, rounds>>

\* lines 38-43: results = ray.get(result_ids); print(results)
L38 ==
    /\ pc = "L38"
    /\ AllResolved(env.result_ids)
    /\ pc' = "L67"
    /\ env' = [env EXCEPT !.results = ray_get(env.result_ids)]
    /\ stdout' = Append(stdout, ray_get(env.result_ids))
    /\ UNCHANGED <<pool, nsub, obj, actors, queue, log, rounds>>

\* II. line 67: x_id = create_matrix.remote([1000, 1000])
L67 ==
    /\ pc = "L67"
    /\ Remote("create_matrix", <<Lit(<<1000, 1000>>)>>)
    /\ env' = [env EXCEPT !.x_id = MainRef]
    /\ pc' = "L68"
    /\ UNCHANGED <<pool, actors, queue, stdout, log, rounds>>

\* line 68: y_id = create_matrix.remote([1000, 1000])
L68 ==
    /\ pc = "L68"
    /\ Remote("create_matrix", <<Lit(<<1000, 1000>>)>>)
    /\ env' = [env EXCEPT !.y_id = MainRef]
    /\ pc' = "L69"
    /\ UNCHANGED <<pool, actors, queue, stdout, log, rounds>>

\* line 69: z_id = multiply_matrices.remote(x_id, y_id)
L69 ==
    /\ pc = "L69"
    /\ Remote("multiply_matrices", <<Ref(env.x_id), Ref(env.y_id)>>)
    /\ env' = [env EXCEPT !.z_id = MainRef]
    /\ pc' = "L74"
    /\ UNCHANGED <<pool, actors, queue, stdout, log, rounds>>

\* line 74: z = ray.get(z_id)
L74 ==
    /\ pc = "L74"
    /\ Resolved(env.z_id)
    /\ pc' = "L105"
    /\ env' = [env EXCEPT !.z = obj[env.z_id].val]
    /\ UNCHANGED <<pool, nsub, obj, actors, queue, stdout, log, rounds>>

\* name = add.remote(x, y), one statement of lines 105-111 and 116-122.
SubmitAdd(here, x, y, name, next) ==
    /\ pc = here
    /\ Remote("add", <<x, y>>)
    /\ env' = [env EXCEPT ![name] = MainRef]
    /\ pc' = next
    /\ UNCHANGED <<pool, actors, queue, stdout, log, rounds>>

\* result = ray.get(ref), lines 112, 123 and 136.
GetResult(here, ref, next) ==
    /\ pc = here
    /\ Resolved(ref)
    /\ pc' = next
    /\ env' = [env EXCEPT !.result = obj[ref].val]
    /\ UNCHANGED <<pool, nsub, obj, actors, queue, stdout, log, rounds>>

\* III. lines 105-112: the chain
L105 == SubmitAdd("L105", Lit(1), Lit(2), "id1", "L106")

L106 == SubmitAdd("L106", Ref(env.id1), Lit(3), "id2", "L107")

L107 == SubmitAdd("L107", Ref(env.id2), Lit(4), "id3", "L108")

L108 == SubmitAdd("L108", Ref(env.id3), Lit(5), "id4", "L109")

L109 == SubmitAdd("L109", Ref(env.id4), Lit(6), "id5", "L110")

L110 == SubmitAdd("L110", Ref(env.id5), Lit(7), "id6", "L111")

L111 == SubmitAdd("L111", Ref(env.id6), Lit(8), "id7", "L112")

L112 == GetResult("L112", env.id7, "L116")

\* lines 116-123: the tree
L116 == SubmitAdd("L116", Lit(1), Lit(2), "id1", "L117")

L117 == SubmitAdd("L117", Lit(3), Lit(4), "id2", "L118")

L118 == SubmitAdd("L118", Lit(5), Lit(6), "id3", "L119")

L119 == SubmitAdd("L119", Lit(7), Lit(8), "id4", "L120")

L120 == SubmitAdd("L120", Ref(env.id1), Ref(env.id2), "id5", "L121")

L121 == SubmitAdd("L121", Ref(env.id3), Ref(env.id4), "id6", "L122")

L122 == SubmitAdd("L122", Ref(env.id5), Ref(env.id6), "id7", "L123")

L123 == GetResult("L123", env.id7, "L133")

\* line 133: values = [1, 2, 3, 4, 5, 6, 7, 8]
L133 ==
    /\ pc = "L133"
    /\ env' = [env EXCEPT !.values = [k \in 1..8 |-> Lit(k)]]
    /\ pc' = "L135"
    /\ UNCHANGED <<pool, nsub, obj, actors, queue, stdout, log, rounds>>

\* A loop that puts the new future in front:
\*     values = [add.remote(values[0], values[1])] + values[2:]
L135Prepend ==
    /\ pc = "L135"
    /\ Len(env.values) > 1
    /\ Remote("add", <<env.values[1], env.values[2]>>)
    /\ LET new == <<Ref(MainRef)>> \o SubSeq(env.values, 3, Len(env.values))
       IN  /\ env' = [env EXCEPT !.values = new]
           /\ pc' = IF Len(new) > 1 THEN "L135" ELSE "L136"
    /\ UNCHANGED <<pool, actors, queue, stdout, log, rounds>>

\* lines 134-135: while len(values) > 1:
\*     values = values[2:] + [add.remote(values[0], values[1])]
L135 ==
    /\ pc = "L135"
    /\ Len(env.values) > 1
    /\ Remote("add", <<env.values[1], env.values[2]>>)
    /\ LET new == SubSeq(env.values, 3, Len(env.values)) \o <<Ref(MainRef)>>
       IN  /\ env' = [env EXCEPT !.values = new]
           /\ pc' = IF Len(new) > 1 THEN "L135" ELSE "L136"
    /\ UNCHANGED <<pool, actors, queue, stdout, log, rounds>>

\* line 136: result = ray.get(values[0])
L136 == GetResult("L136", env.values[1][2], "L177")

\* IV. line 177: c = Counter.remote()
L177 ==
    /\ pc = "L177"
    /\ Instantiate("Counter")
    /\ env' = [env EXCEPT !.c = "Counter"]
    /\ pc' = "L180"
    /\ UNCHANGED <<pool, nsub, obj, stdout, rounds>>

\* print(ray.get(c.get_value.remote())), lines 180 and 185: the call
CallGetValue(here, next) ==
    /\ pc = here
    /\ Invoke(env.c, "get_value", <<>>)
    /\ env' = [env EXCEPT !.tmp = MainRef]
    /\ pc' = next
    /\ UNCHANGED <<pool, actors, stdout, rounds>>

\* print(ray.get(...)), lines 180 and 185: the wait and the print
PrintValue(here, next) ==
    /\ pc = here
    /\ Resolved(env.tmp)
    /\ pc' = next
    /\ stdout' = Append(stdout, obj[env.tmp].val)
    /\ UNCHANGED <<pool, env, nsub, obj, actors, queue, log, rounds>>

\* c.inc.remote(), lines 183 and 184
CallInc(here, next) ==
    /\ pc = here
    /\ Invoke(env.c, "inc", <<>>)
    /\ pc' = next
    /\ UNCHANGED <<pool, env, actors, stdout, rounds>>

L180 == CallGetValue("L180", "L180_get")

L180_get == PrintValue("L180_get", "L183")

L183 == CallInc("L183", "L184")

L184 == CallInc("L184", "L185")

L185 == CallGetValue("L185", "L185_get")

L185_get == PrintValue("L185_get", "L227")

\* V. line 227: message_actor = MessageActor.remote()
L227 ==
    /\ pc = "L227"
    /\ Instantiate("MessageActor")
    /\ env' = [env EXCEPT !.message_actor = "MessageActor", !.j = 0]
    /\ pc' = "L230"
    /\ UNCHANGED <<pool, nsub, obj, stdout, rounds>>

\* line 230: [worker.remote(message_actor, j) for j in range(3)]
L230 ==
    /\ pc = "L230"
    /\ Remote("worker", <<Lit(env.message_actor), Lit(env.j)>>)
    /\ env' = [env EXCEPT !.j = @ + 1, !.n = 0]
    /\ pc' = IF env.j + 1 < NumWorkers THEN "L230"
             ELSE IF NumDrains > 0 THEN "L234" ELSE "done"
    /\ UNCHANGED <<pool, actors, queue, stdout, log, rounds>>

\* line 234: message_actor.get_and_clear_message.remote()
L234 ==
    /\ pc = "L234"
    /\ Invoke(env.message_actor, "get_and_clear_message", <<>>)
    /\ env' = [env EXCEPT !.tmp = MainRef]
    /\ pc' = "L234_get"
    /\ UNCHANGED <<pool, actors, stdout, rounds>>

\* lines 234-236: new_messages = ray.get(...); print; sleep; next turn
L234_get ==
    /\ pc = "L234_get"
    /\ Resolved(env.tmp)
    /\ pc' = IF env.n + 1 < NumDrains THEN "L234" ELSE "done"
    /\ env' = [env EXCEPT !.new_messages = obj[env.tmp].val, !.n = @ + 1]
    /\ stdout' = Append(stdout, obj[env.tmp].val)
    /\ UNCHANGED <<pool, nsub, obj, actors, queue, log, rounds>>

Tasks == L35 \/ L38

Matrices == L67 \/ L68 \/ L69 \/ L74

Chain == L105 \/ L106 \/ L107 \/ L108 \/ L109 \/ L110 \/ L111 \/ L112

Tree == L116 \/ L117 \/ L118 \/ L119 \/ L120 \/ L121 \/ L122 \/ L123

Loop == L133 \/ L135 \/ L136

Counter == L177 \/ L180 \/ L180_get \/ L183 \/ L184 \/ L185 \/ L185_get

Messages == L227 \/ L230 \/ L234 \/ L234_get

---------------------------------------------------------------------------
(* The specifications *)

\* line 24, ray.init(): the runtime is up, nothing submitted yet.  A name
\* the script has not assigned yet holds a placeholder of the kind of value
\* it will hold (an empty list, a matrix without entries, 0), so that a
\* name's value before and after its assignment can be compared.
Init ==
    /\ pool \in 1..MaxPool
    /\ pc = "L35"
    /\ env = [i |-> 0, result_ids |-> <<>>, results |-> <<>>,
              x_id |-> NoRef, y_id |-> NoRef, z_id |-> NoRef,
              z |-> [op |-> "unassigned"],
              id1 |-> NoRef, id2 |-> NoRef, id3 |-> NoRef, id4 |-> NoRef,
              id5 |-> NoRef, id6 |-> NoRef, id7 |-> NoRef, result |-> 0,
              values |-> <<>>, c |-> None, tmp |-> NoRef,
              message_actor |-> None, j |-> 0, n |-> 0,
              new_messages |-> <<>>]
    /\ nsub = 0
    /\ obj = <<>>
    /\ actors = <<>>
    /\ queue = <<>>
    /\ stdout = <<>>
    /\ log = <<>>
    /\ rounds = [l \in {"L38", "L112", "L123"} |-> 0]

\* Lines 24-185: tasks, task graphs and the Counter actor.
Next ==
    \/ Tasks \/ Matrices \/ Chain \/ Tree \/ Loop \/ Counter
    \/ \E id \in DOMAIN obj : Dispatch(id)
    \/ \E id \in DOMAIN obj : Complete(id)
    \/ \E a \in DOMAIN actors : ActorStart(a)
    \/ \E id \in DOMAIN obj : ActorFinish(id)

Spec == Init /\ [][Next]_vars

\* The statements of lines 24-185, main's steps.
Script == Tasks \/ Matrices \/ Chain \/ Tree \/ Loop \/ Counter

\* Lines 24-185 under fair scheduling: main goes on to its next statement
\* when it can, a ready task is handed out while a worker is free, a
\* running body returns, an idle actor takes the head of its queue.
SpecLive ==
    /\ Init
    /\ [][Next]_vars
    /\ WF_vars(Script)
    /\ WF_vars(\E id \in DOMAIN obj : Dispatch(id))
    /\ WF_vars(\E id \in DOMAIN obj : Complete(id))
    /\ WF_vars(\E a \in DOMAIN actors : ActorStart(a))
    /\ WF_vars(\E id \in DOMAIN obj : ActorFinish(id))

\* The whole script, lines 24-236.
NextProgram ==
    \/ Tasks \/ Matrices \/ Chain \/ Tree \/ Loop \/ Counter \/ Messages
    \/ \E id \in DOMAIN obj : Dispatch(id)
    \/ \E id \in DOMAIN obj : Complete(id)
    \/ \E id \in DOMAIN obj : WorkerSend(id)
    \/ \E a \in DOMAIN actors : ActorStart(a)
    \/ \E id \in DOMAIN obj : ActorFinish(id)

SpecProgram == Init /\ [][NextProgram]_vars

\* The futures the ray.get main is at waits for.
Awaited ==
    CASE pc = "L38" -> env.result_ids
      [] pc = "L74" -> <<env.z_id>>
      [] pc \in {"L112", "L123"} -> <<env.id7>>
      [] pc = "L136" -> <<env.values[1][2]>>
      [] pc \in {"L180_get", "L185_get", "L234_get"} -> <<env.tmp>>
      [] OTHER -> <<>>

\* main is blocked in a ray.get.
Blocked == \E k \in 1..Len(Awaited) : ~Settled(Awaited[k])

\* The running tasks that are in their time.sleep(1).
Sleepers == {id \in Running : Sleeps(obj[id].fn)}

\* A task without a sleep returns.
CompleteInstant(id) ==
    /\ ~Sleeps(obj[id].fn)
    /\ Complete(id)

\* One second passes (time.sleep(1), lines 29 and 100): every task that
\* is asleep returns.  Submitting, dispatching and the tasks without a
\* sleep take no time: a second passes only when main is blocked in a
\* ray.get and no ready task can be given to a free worker.
Tick ==
    /\ Alive
    /\ Blocked
    /\ Ready = {} \/ ~FreeWorker
    /\ Sleepers # {}
    /\ Running = Sleepers
    /\ obj' = [id \in DOMAIN obj |->
                 IF id \in Sleepers
                 THEN [obj[id] EXCEPT !.st = "Resolved", !.val = Apply(id)]
                 ELSE obj[id]]
    /\ rounds' = [rounds EXCEPT ![pc] = @ + 1]
    /\ UNCHANGED <<pool, pc, env, nsub, actors, queue, stdout, log>>

\* Lines 24-123 with time: the tasks take the second their sleep takes.
NextRounds ==
    \/ Tasks \/ Matrices \/ Chain \/ Tree
    \/ \E id \in DOMAIN obj : Dispatch(id)
    \/ \E id \in DOMAIN obj : CompleteInstant(id)
    \/ Tick

SpecRounds == Init /\ [][NextRounds]_vars

\* A task's body returns (worker: once its NumTurns turns are done).
CompleteTurns(id) ==
    /\ Alive
    /\ IsRunning(id)
    /\ obj[id].fn = "worker" => obj[id].i >= NumTurns
    /\ obj' = [obj EXCEPT ![id].st = "Resolved", ![id].val = Apply(id)]
    /\ UNCHANGED <<pool, pc, env, nsub, actors, queue, stdout, log, rounds>>

\* Lines 221-224, one of the NumTurns turns of worker's loop.
WorkerSendTurns(id) ==
    /\ Alive
    /\ obj[id].fn = "worker"
    /\ IsRunning(id)
    /\ obj[id].i < NumTurns
    /\ LET a == ArgValue(obj[id].args[1])
           j == ArgValue(obj[id].args[2])
           call == <<j + 1, obj[id].i + 1>>
       IN  /\ obj' = [obj EXCEPT ![id].i = @ + 1] @@
                        (call :> NewCall(a, "add_message",
                                         <<Lit(Message(obj[id].i, j))>>))
           /\ queue' = [queue EXCEPT ![a] = Append(@, call)]
           /\ log' = [log EXCEPT ![a] = Append(@, call)]
    /\ UNCHANGED <<pool, pc, env, nsub, actors, stdout, rounds>>

\* ray.init() with at most PoolTurns workers.
InitTurns == Init /\ pool <= PoolTurns

\* The whole script, each worker task sending NumTurns messages.
NextTurns ==
    \/ Script \/ Messages
    \/ \E id \in DOMAIN obj : Dispatch(id)
    \/ \E id \in DOMAIN obj : CompleteTurns(id)
    \/ \E id \in DOMAIN obj : WorkerSendTurns(id)
    \/ \E a \in DOMAIN actors : ActorStart(a)
    \/ \E id \in DOMAIN obj : ActorFinish(id)

SpecTurns == InitTurns /\ [][NextTurns]_vars

\* The whole script, where main goes on when it can and an actor with a
\* non-empty queue goes on executing; nothing is assumed of the workers of
\* the pool and of the tasks on them.
SpecDrains ==
    /\ Init
    /\ [][NextProgram]_vars
    /\ WF_vars(Script \/ Messages)
    /\ WF_vars(\E a \in DOMAIN actors : ActorStart(a))
    /\ WF_vars(\E id \in DOMAIN obj : ActorFinish(id))

---------------------------------------------------------------------------
(* Failing tasks.  No task of the script raises; what the runtime does when *)
(* one does is taken from the specification's sections 4.3 and 7.           *)

\* The tasks whose own body raised.
Raised ==
    {id \in DOMAIN obj : Failed(id) /\ obj[id].val = "ExecutionError"}

\* A fail-fast that reaches every task once some task has failed.
SomeTaskFailed(id) == \E d \in DOMAIN obj : Failed(d)

\* Some future among the task's arguments is Failed.
HasFailedDep(id) == \E d \in FutureArgs(id) : Failed(d)

\* ExecutionError: the body of a running task raises.
Fail(id) ==
    /\ Alive
    /\ IsRunning(id)
    /\ Cardinality(Raised) < MaxFailures
    /\ obj' = [obj EXCEPT ![id].st = "Failed", ![id].val = "ExecutionError"]
    /\ UNCHANGED <<pool, pc, env, nsub, actors, queue, stdout, log, rounds>>

\* DependencyFailure: a task waiting for a Failed future fails without
\* being executed.
Propagate(id) ==
    /\ Alive
    /\ IsPlain(id)
    /\ obj[id].st = "Pending"
    /\ HasFailedDep(id)
    /\ obj' = [obj EXCEPT ![id].st = "Failed", ![id].val = "DependencyFailure"]
    /\ UNCHANGED <<pool, pc, env, nsub, actors, queue, stdout, log, rounds>>

\* ray.get of a Failed future hands the error to main, which stops there;
\* the runtime goes on with what was submitted.
Raise ==
    /\ Awaited # <<>>
    /\ ~Blocked
    /\ \E k \in 1..Len(Awaited) : Failed(Awaited[k])
    /\ pc' = "raised"
    /\ UNCHANGED <<pool, env, nsub, obj, actors, queue, stdout, log, rounds>>

\* Lines 24-136, where a task's body may raise.
NextFail ==
    \/ Tasks \/ Matrices \/ Chain \/ Tree \/ Loop
    \/ \E id \in DOMAIN obj : Dispatch(id)
    \/ \E id \in DOMAIN obj : Complete(id)
    \/ \E id \in DOMAIN obj : Fail(id)
    \/ \E id \in DOMAIN obj : Propagate(id)
    \/ Raise

SpecFail == Init /\ [][NextFail]_vars

---------------------------------------------------------------------------
(* Properties *)

\* An invocation that has been handed to a worker or to its actor.
Started(id) == obj[id].st \in {"Running", "Resolved"}

\* C1. Dependency order: a task that has started has every future among
\* its arguments Resolved; multiply_matrices(x_id, y_id) has not left
\* Pending while either create_matrix task is still pending or running.
C1_DependencyOrder ==
    /\ \A id \in DOMAIN obj :
          Started(id) => \A d \in FutureArgs(id) : Resolved(d)
    /\ (env.z_id # NoRef /\ obj[env.z_id].st # "Pending")
          => (Resolved(env.x_id) /\ Resolved(env.y_id))

\* multiply_matrices is running on the two matrices.
C1_Witness ==
    /\ env.z_id # NoRef
    /\ obj[env.z_id].st = "Running"
    /\ FutureArgs(env.z_id) = {env.x_id, env.y_id}

\* The invocations of actor a run one after the other in arrival order: one
\* that has started has every earlier arrival Resolved.
InArrivalOrder(a) ==
    \A p, q \in 1..Len(log[a]) :
        (p < q /\ Started(log[a][q])) => Resolved(log[a][p])

\* C2. Actor FIFO order from a single caller: the Counter's invocations
\* run in the order main enqueued them; of get_value, inc, inc, get_value
\* the first get_value prints 0 and the second prints 2.
C2_CounterFifo ==
    /\ \A a \in DOMAIN actors : InArrivalOrder(a)
    /\ Len(stdout) >= 2 => stdout[2] = 0
    /\ Len(stdout) >= 3 => stdout[3] = 2

\* Both values are printed, after the four invocations went through the
\* Counter's queue.
C2_Witness ==
    /\ pc = "L227"
    /\ Len(log["Counter"]) = 4
    /\ stdout[2] = 0
    /\ stdout[3] = 2

\* The fields of actor a after its first k arrivals ran one by one.
RECURSIVE ReplayState(_, _)
ReplayState(a, k) ==
    IF k = 0 THEN Construct(a)
    ELSE Method(ReplayState(a, k - 1), log[a][k])[1]

\* What the k-th arrival returns in that sequential run.
ReplayValue(a, k) == Method(ReplayState(a, k - 1), log[a][k])[2]

\* How many invocations of actor a have returned.
Returned(a) == Cardinality({p \in 1..Len(log[a]) : Resolved(log[a][p])})

\* C3. Per-actor mutual exclusion: at most one invocation of an actor is
\* executing; the invocations that have returned are the first ones that
\* arrived, and the actor's fields and every returned value are those of
\* running them one by one in arrival order.
C3_MutualExclusion ==
    \A a \in DOMAIN actors :
        /\ Cardinality(Executing(a)) <= 1
        /\ \A p \in 1..Returned(a) : Resolved(log[a][p])
        /\ actors[a] = ReplayState(a, Returned(a))
        /\ \A p \in 1..Returned(a) : obj[log[a][p]].val = ReplayValue(a, p)

\* The MessageActor is executing one invocation while those of two workers
\* and of main wait in its queue, and another has already returned.
C3_Witness ==
    /\ "MessageActor" \in DOMAIN actors
    /\ Cardinality(Executing("MessageActor")) = 1
    /\ Returned("MessageActor") >= 1
    /\ {c[1] : c \in {queue["MessageActor"][k] :
                        k \in 1..Len(queue["MessageActor"])}} \in
            {{0, 1, 2}, {0, 1, 3}, {0, 2, 3}}

\* The arrivals of actor a that invoke method m.
Calls(a, m) == {p \in 1..Len(log[a]) : obj[log[a][p]].fn = m}

\* The draining reads of the MessageActor that arrived after every
\* add_message of every worker had been issued, and have returned.
LateDrains ==
    IF "MessageActor" \notin DOMAIN actors THEN {}
    ELSE {q \in Calls("MessageActor", "get_and_clear_message") :
            /\ Resolved(log["MessageActor"][q])
            /\ Cardinality({p \in Calls("MessageActor", "add_message") : p < q})
                  = NumWorkers * NumMessages}

\* How many entries the draining reads among the first q arrivals returned.
RECURSIVE Drained(_)
Drained(q) ==
    IF q = 0 THEN 0
    ELSE Drained(q - 1) +
         (IF q \in Calls("MessageActor", "get_and_clear_message")
          THEN Len(obj[log["MessageActor"][q]].val) ELSE 0)

\* C4 as stated: a draining read enqueued after all the workers'
\* invocations were issued returns exactly that many entries.
C4_AsStated ==
    \A q \in LateDrains :
        Len(obj[log["MessageActor"][q]].val) = NumWorkers * NumMessages

\* C4, amended: once a draining read enqueued after all the workers'
\* invocations were issued has returned, the draining reads up to and
\* including it have together returned exactly that many entries.
C4_HandleSharing ==
    \A q \in LateDrains : Drained(q) = NumWorkers * NumMessages

\* Such a draining read has returned, after an earlier one took a part.
C4_Witness ==
    \E q \in LateDrains :
        /\ Len(obj[log["MessageActor"][q]].val) > 0
        /\ Drained(q - 1) > 0

\* C6. Batch resolve preserves request order: main passes line 38 only
\* with all four f tasks Resolved, and results is [0, 1, 2, 3], the value of
\* f(i) at the place of the i-th future, whatever order they completed in.
C6_BatchOrder ==
    pc \notin {"L35", "L38"} =>
        /\ AllResolved(env.result_ids)
        /\ env.results = [k \in 1..NumTasks |-> f(k - 1)]
        /\ env.results = <<0, 1, 2, 3>>

\* ray.get(result_ids) has returned the four values.
C6_Witness ==
    /\ pc = "L67"
    /\ Len(env.result_ids) = NumTasks
    /\ stdout = <<<<0, 1, 2, 3>>>>

\* The futures id1..id7 of the section main is in, as far as assigned.
Ids == <<env.id1, env.id2, env.id3, env.id4, env.id5, env.id6, env.id7>>

InChain == pc \in {"L105", "L106", "L107", "L108", "L109", "L110", "L111", "L112"}

InTree == pc \in {"L116", "L117", "L118", "L119", "L120", "L121", "L122", "L123"}

\* A task that waits for a worker only: no future it takes is unresolved.
Eligible(id) ==
    obj[id].st = "Pending" /\ \A d \in FutureArgs(id) : obj[d].st = "Resolved"

\* The tasks among id1..id7 that are ready or executing.
Active ==
    {k \in 1..7 :
        Ids[k] # NoRef /\ (Eligible(Ids[k]) \/ obj[Ids[k]].st = "Running")}

\* C7. The chain is serialized by its data dependencies: while main is in
\* lines 105-112 at most one of id1..id7 is ready or executing, and a task
\* of the chain has started only if its predecessor has returned, so the
\* seven executions follow one another, whatever the number of workers.
C7_ChainSerialized ==
    InChain =>
        /\ Cardinality(Active) <= 1
        /\ \A k \in 1..6 :
              (Ids[k + 1] # NoRef /\ Started(Ids[k + 1])) => Resolved(Ids[k])

\* The last task of the chain is executing after the six before it.
C7_Witness ==
    /\ pc = "L112"
    /\ obj[env.id7].st = "Running"
    /\ \A k \in 1..6 : Resolved(Ids[k])
    /\ pool > 1

\* The value of calling the task's function directly on the directly
\* computed values of its arguments (create_matrix: the sample it drew).
RECURSIVE Direct(_)
Direct(id) ==
    LET fn == obj[id].fn
        arg(k) == IF obj[id].args[k][1] = "ref"
                  THEN Direct(obj[id].args[k][2]) ELSE obj[id].args[k][2]
    IN  CASE fn = "f" -> f(arg(1))
          [] fn = "multiply_matrices" -> multiply_matrices(arg(1), arg(2))
          [] fn = "add" -> add(arg(1), arg(2))
          [] OTHER -> obj[id].val

\* C9. Round trip: the value of a resolved f, multiply_matrices or add task
\* is that of the direct call on its arguments' values; the chain and the
\* tree over 1..8 both give result = 36.
C9_RoundTrip ==
    /\ \A id \in DOMAIN obj :
          (IsPlain(id) /\ Resolved(id)) => obj[id].val = Direct(id)
    /\ pc = "L116" => env.result = 36
    /\ pc = "L133" => env.result = 36

\* The tree's result has been read, and is the direct value of id7.
C9_Witness ==
    /\ pc = "L133"
    /\ env.result = 36
    /\ Direct(env.id7) = add(add(add(1, 2), add(3, 4)), add(add(5, 6), add(7, 8)))

\* C10. A future is written once: when an invocation changes state it
\* moves Pending -> Running -> Resolved (or to Failed), and once settled its
\* record, value included, stays as it is, so a further read of it returns
\* the same value.
C10_WriteOnce ==
    [][\A id \in DOMAIN obj :
          /\ id \in DOMAIN obj'
          /\ Settled(id) => obj'[id] = obj[id]
          /\ obj'[id].st # obj[id].st =>
                <<obj[id].st, obj'[id].st>> \in
                    {<<"Pending", "Running">>, <<"Running", "Resolved">>,
                     <<"Pending", "Failed">>, <<"Running", "Failed">>}]_vars

\* Long after z = ray.get(z_id), x_id, y_id and z_id are as they resolved.
C10_Witness ==
    /\ pc = "L177"
    /\ Resolved(env.x_id) /\ Resolved(env.y_id) /\ Resolved(env.z_id)
    /\ env.z = obj[env.z_id].val
    /\ env.z = multiply_matrices(obj[env.x_id].val, obj[env.y_id].val)

\* C8. The tree runs in logarithmic depth: its four leaf tasks are all
\* ready or executing together once submitted, before any second has
\* passed; with at least 4 workers main waits 3 seconds at line 123, fewer
\* than the 7 seconds it waited at line 112 for the chain.
C8_TreeRounds ==
    /\ (pc \in {"L120", "L121", "L122", "L123"} /\ rounds["L123"] = 0)
          => \A k \in 1..4 : Eligible(Ids[k]) \/ obj[Ids[k]].st = "Running"
    /\ pc = "L133" => rounds["L112"] = 7
    /\ (pc = "L133" /\ pool >= 4)
          => (rounds["L123"] = 3 /\ rounds["L123"] < rounds["L112"])

\* With 4 workers the tree is done after 3 seconds.
C8_Witness ==
    /\ pc = "L133"
    /\ pool >= 4
    /\ rounds["L123"] = 3
    /\ env.result = 36

\* Some task the given one depends on, directly or not, is Failed.
RECURSIVE FailedAncestor(_)
FailedAncestor(id) ==
    \E d \in FutureArgs(id) : Failed(d) \/ FailedAncestor(d)

\* The runtime has nothing left to do with the tasks submitted so far.
Quiet ==
    \A id \in DOMAIN obj :
        /\ obj[id].st # "Running"
        /\ (IsPlain(id) /\ obj[id].st = "Pending")
              => \E d \in FutureArgs(id) : obj[d].st = "Pending"

\* C5. Failure propagation: a task with a Failed task among those it
\* depends on, directly or transitively, is never handed to a worker, and
\* is Failed (by DependencyFailure) once the runtime has nothing left to
\* do; a task is failed that way only if a future it takes is Failed, and
\* the tasks with no failed task behind them that did not raise themselves
\* are all Resolved once the runtime has nothing left to do.
C5_FailurePropagation ==
    \A id \in DOMAIN obj :
        /\ FailedAncestor(id) => obj[id].st \in {"Pending", "Failed"}
        /\ (FailedAncestor(id) /\ Failed(id)) => obj[id].val = "DependencyFailure"
        /\ (Failed(id) /\ id \notin Raised)
              => \E d \in FutureArgs(id) : Failed(d)
        /\ Quiet => IF FailedAncestor(id) THEN Failed(id)
                    ELSE id \in Raised \/ Resolved(id)

\* In the tree id1 raised: id5 and id7 are Failed without having run, and
\* id2, id3, id4 and id6 are Resolved.
C5_Witness ==
    /\ pc = "raised"
    /\ env.id7 # NoRef
    /\ FutureArgs(env.id7) = {env.id5, env.id6}
    /\ env.id1 \in Raised
    /\ Failed(env.id5) /\ Failed(env.id7)
    /\ obj[env.id7].val = "DependencyFailure"
    /\ \A k \in {2, 3, 4, 6} : Resolved(Ids[k])
    /\ obj[env.id6].val = 26

\* The invocations of method m on actor a that have returned.
Done(a, m) == {p \in Calls(a, m) : Resolved(log[a][p])}

\* C11. At-most-once execution: an invocation starts executing only from
\* Pending and never becomes Pending again, so it starts at most once; when
\* an inc returns the Counter's x has grown by exactly 1, and when an
\* add_message returns the list has grown by exactly its one message; x is
\* the number of inc invocations that returned, 2 after both.
C11_AtMostOnce ==
    /\ [][\A id \in DOMAIN obj :
            /\ obj[id].st # "Pending" => obj'[id].st # "Pending"
            /\ (obj[id].st # "Running" /\ obj'[id].st = "Running")
                  => obj[id].st = "Pending"
            /\ (obj[id].fn = "inc" /\ obj[id].st # obj'[id].st
                    /\ obj'[id].st = "Resolved")
                  => actors'["Counter"].x = actors["Counter"].x + 1
            /\ (obj[id].fn = "add_message" /\ obj[id].st # obj'[id].st
                    /\ obj'[id].st = "Resolved")
                  => actors'["MessageActor"].messages =
                        Append(actors["MessageActor"].messages,
                               obj[id].args[1][2])]_vars
    /\ []("Counter" \in DOMAIN actors =>
            /\ actors["Counter"].x = Cardinality(Done("Counter", "inc"))
            /\ actors["Counter"].x <= 2
            /\ pc = "L227" => actors["Counter"].x = 2)

\* Both inc invocations and every worker's add_message have returned.
C11_Witness ==
    /\ "MessageActor" \in DOMAIN actors
    /\ actors["Counter"].x = 2
    /\ Cardinality(Done("Counter", "inc")) = 2
    /\ Cardinality(Done("MessageActor", "add_message"))
          = NumWorkers * NumMessages

C13_Backpressure ==
    /\ [][\A id \in DOMAIN obj :
            (/\ obj[id].actor = "none"
             /\ obj[id].st = "Pending"
             /\ \A d \in FutureArgs(id) : obj[d].st = "Resolved")
               => obj'[id].st \in {"Pending", "Running"}]_vars
    /\ (pc = "L112") ~> (pc = "L116")
    /\ (pc = "L123") ~> (pc = "L133")
    /\ (pc = "L136") ~> (pc = "L177")
    /\ <>(pc = "L177" /\ \A id \in DOMAIN obj : Resolved(id))

\* One worker only: main waits at line 123 while id2 is executing, id3 and
\* id4 wait in the ready set, and id1 has already gone through.
C13_Witness ==
    /\ pc = "L123"
    /\ pool = 1
    /\ Resolved(env.id1)
    /\ IsRunning(env.id2)
    /\ IsReady(env.id3) /\ IsReady(env.id4)
    /\ ~FreeWorker

\* The dependency graph below a future, as a term: a task is its function
\* applied to the graphs of its arguments, a literal is <<"lit", value>>.
RECURSIVE Shape(_)
Shape(id) ==
    <<obj[id].fn>> \o
    [k \in 1..Len(obj[id].args) |->
        IF obj[id].args[k][1] = "ref" THEN Shape(obj[id].args[k][2])
        ELSE obj[id].args[k]]

\* The longest chain of tasks below a future, the future's own task included.
RECURSIVE Depth(_)
Depth(id) ==
    LET below == {Depth(d) : d \in FutureArgs(id)}
    IN  1 + (IF below = {} THEN 0 ELSE CHOOSE n \in below : \A m \in below : m <= n)

\* The tasks the loop of lines 134-135 submitted: those after the tree's id7.
LoopTasks == {id \in DOMAIN obj : id[1] = 0 /\ id[2] > env.id7[2]}

\* C14. The fast loop: a turn of the loop takes two values and adds one
\* future, so values has 8 entries less one per submission; the loop ends
\* after exactly 7 submissions with one future left, whose dependency graph
\* is that of the tree's id7, the balanced tree of depth 3 over 1..8, and
\* ray.get of it gives 36.
C14_FastLoop ==
    /\ pc = "L135" => Len(env.values) = 8 - Cardinality(LoopTasks)
    /\ pc \in {"L136", "L177"} =>
          /\ Cardinality(LoopTasks) = 7
          /\ Len(env.values) = 1
          /\ env.values[1][1] = "ref"
          /\ Depth(env.values[1][2]) = 3
          /\ Shape(env.values[1][2]) = Shape(env.id7)
          /\ LET leaf(x, y) == <<"add", <<"lit", x>>, <<"lit", y>>>>
             IN  Shape(env.values[1][2]) =
                    <<"add", <<"add", leaf(1, 2), leaf(3, 4)>>,
                             <<"add", leaf(5, 6), leaf(7, 8)>>>>
    /\ pc = "L177" =>
          (env.result = 36 /\ obj[env.values[1][2]].val = 36)

\* The loop has ended and its one future, of the tree's shape, gave 36.
C14_Witness ==
    /\ pc = "L177"
    /\ Cardinality(LoopTasks) = 7
    /\ Depth(env.values[1][2]) = 3
    /\ Shape(env.values[1][2]) = Shape(env.id7)
    /\ env.values[1][2] # env.id7
    /\ env.result = 36

\* The messages of the add_message invocations among the first k arrivals
\* at the MessageActor that have executed, in arrival order.
RECURSIVE Added(_)
Added(k) ==
    IF k = 0 THEN <<>>
    ELSE LET c == log["MessageActor"][k]
         IN  Added(k - 1) \o
             (IF obj[c].fn = "add_message" /\ Resolved(c)
              THEN <<obj[c].args[1][2]>> ELSE <<>>)

\* The batches the get_and_clear_message invocations among the first k
\* arrivals have returned, one after the other.
RECURSIVE Batches(_)
Batches(k) ==
    IF k = 0 THEN <<>>
    ELSE LET c == log["MessageActor"][k]
         IN  Batches(k - 1) \o
             (IF obj[c].fn = "get_and_clear_message" /\ Resolved(c)
              THEN obj[c].val ELSE <<>>)

\* How often message m occurs in the sequence q.
Occurrences(m, q) == Cardinality({p \in 1..Len(q) : q[p] = m})

\* C15. Message conservation under interleaved drains: every message whose
\* add_message has executed occurs exactly once in the batches returned so
\* far together with the actor's list, and nothing else occurs there: the
\* batches followed by the list are the executed messages in the order
\* they were added.
C15_Conservation ==
    "MessageActor" \in DOMAIN actors =>
        LET n == Len(log["MessageActor"])
            held == actors["MessageActor"].messages
        IN  /\ \A p \in 1..Len(Added(n)) :
                  Occurrences(Added(n)[p], Batches(n)) +
                  Occurrences(Added(n)[p], held) = 1
            /\ Len(Batches(n)) + Len(held) = Len(Added(n))
            /\ Batches(n) \o held = Added(n)

\* Two drains have each returned a part, in between the workers' adds, and
\* the actor holds messages added after the second.
C15_Witness ==
    /\ pc = "done"
    /\ LET d == {p \in Done("MessageActor", "get_and_clear_message") :
                    obj[log["MessageActor"][p]].val # <<>>}
       IN  Cardinality(d) = 2
    /\ actors["MessageActor"].messages # <<>>
    /\ Len(Batches(Len(log["MessageActor"]))) +
          Len(actors["MessageActor"].messages) = NumWorkers * NumTurns

\* In the sequence q of messages, those of one worker come in increasing i.
PerWorkerOrder(q) ==
    \A p1, p2 \in 1..Len(q) :
        (p1 < p2 /\ q[p1][4] = q[p2][4]) => q[p1][2] < q[p2][2]

\* C16. Per-caller order through the shared actor: in the batches main
\* has drained, one after the other (and in those batches followed by what
\* the actor still holds), the messages of each worker j come in
\* increasing i; nothing is required between different workers.
C16_PerCallerOrder ==
    "MessageActor" \in DOMAIN actors =>
        LET n == Len(log["MessageActor"])
        IN  /\ PerWorkerOrder(Batches(n))
            /\ PerWorkerOrder(Batches(n) \o actors["MessageActor"].messages)

\* Main has drained both messages of some worker, in two batches, and a
\* message of a later worker ahead of a message of an earlier one.
C16_Witness ==
    /\ "MessageActor" \in DOMAIN actors
    /\ LET all == Batches(Len(log["MessageActor"]))
           first == obj[log["MessageActor"][
                        CHOOSE p \in Calls("MessageActor", "get_and_clear_message") :
                            \A q \in Calls("MessageActor", "get_and_clear_message") :
                                p <= q]].val
       IN  /\ Cardinality(Done("MessageActor", "get_and_clear_message")) = 2
           /\ \E p1, p2 \in 1..Len(all) :
                 /\ p1 <= Len(first) /\ Len(first) < p2
                 /\ all[p1][4] = all[p2][4]
                 /\ all[p1][2] = 0 /\ all[p2][2] = 1
           /\ \E p1, p2 \in 1..Len(all) : p1 < p2 /\ all[p1][4] > all[p2][4]

\* C17. Drain reads are not starved: each get_and_clear_message main
\* enqueues (the one of turn k of the loop of line 233) resolves while main
\* waits for it, whatever the worker tasks and the pool do meanwhile; the
\* invocations that arrived at the actor after it do not run before it.
C17_DrainsResolve ==
    /\ \A k \in 0..(NumDrains - 1) :
          (pc = "L234_get" /\ env.n = k)
             ~> (pc = "L234_get" /\ env.n = k /\ Resolved(env.tmp))
    /\ []("MessageActor" \in DOMAIN actors => InArrivalOrder("MessageActor"))

\* A drain has resolved, with messages, while worker tasks that have not
\* finished their loop hold every worker of the pool.
C17_Witness ==
    /\ pc = "L234_get"
    /\ Resolved(env.tmp)
    /\ obj[env.tmp].val # <<>>
    /\ Cardinality(Running) = pool
    /\ \A id \in Running : obj[id].fn = "worker" /\ obj[id].i < NumMessages

\* The plain tasks that are executing on workers of the pool.
OnWorkers ==
    {id \in DOMAIN obj : obj[id].actor = "none" /\ obj[id].st = "Running"}

\* C18. Pool size bounds concurrency: never more plain tasks are executing
\* than ray.init() started workers, so that each worker has at most one;
\* a task that is executing keeps its worker until it has completed: it is
\* not taken back to Pending, and the number of executing tasks goes down
\* only by tasks that completed.
C18_PoolBound ==
    /\ [](Cardinality(OnWorkers) <= pool)
    /\ [][/\ \A id \in OnWorkers : obj'[id].st \in {"Running", "Resolved"}
          /\ \A id \in OnWorkers \ OnWorkers' : Resolved(id)'
          /\ Cardinality(OnWorkers' \ OnWorkers) <= 1]_vars

\* Two workers, both executing an f task, the two other f tasks waiting.
C18_Witness ==
    /\ pc = "L38"
    /\ pool = 2
    /\ Cardinality(OnWorkers) = pool
    /\ Cardinality(Ready) = NumTasks - pool

===========================================================================
